---- MODULE Spec2Model ----
(***************************************************************************)
(* Signed big integers of aquefir/bigint (src/src/bigint.c): construction, *)
(* deep copy, destruction and the three signed comparisons, run by a       *)
(* single-threaded caller that holds two struct bigint_s variables.        *)
(*                                                                         *)
(* Memory is a heap of blocks.  A block carries its octets and the octet   *)
(* that lies right behind it in memory ("past"): reading index sz of a     *)
(* buffer of sz octets is out of bounds, the value read is unknown but it  *)
(* is the same every time it is read.                                      *)
(***************************************************************************)
EXTENDS Integers, Sequences, FiniteSets, TLC

MaxInitSz == 2          \* widths the caller passes to bigint_s_init

U16Mod == 65536         \* u16 arithmetic is modulo 2^16
NULL == 0

BIGINT_FALSE == 0
BIGINT_TRUE == 1
BIGINT_UNDEFINED == 2

Slots == {"a", "b"}     \* the caller's two struct bigint_s variables
PastOctets == {0, 1}    \* contents of the octet behind a block
UninitOctets == {0, 7}  \* contents of an octet uni_alloc did not fill
Widths == {8, 16, 32, 64}

VARIABLES heap, vals, pc, op, xa, xb, arg, a_neg, i, new_sz, res, pre, acc,
          prev, nfree, uaf

vars == <<heap, vals, pc, op, xa, xb, arg, a_neg, i, new_sz, res, pre, acc,
          prev, nfree, uaf>>

\* every variable is assigned once, by one allocating call at most
Blocks == 1..Cardinality(Slots)

\* ---------------------------------------------------------------- octets
Pow256(k) == IF k = 0 THEN 1 ELSE IF k = 1 THEN 256
             ELSE IF k = 2 THEN 65536 ELSE 16777216

\* the primitives the caller converts; a 64-bit one is <<low word, high word>>
Prims(w) == IF w = 8 THEN {-128, -2, -1, 0, 3, 5}
            ELSE IF w = 16 THEN {-2, -1, 5, 255, 1280}
            ELSE IF w = 32 THEN {-1, 16909060}
            ELSE {<<-1, -1>>, <<67305985, 134678021>>}

\* byte k (0 = lowest address) of the object representation of n on a
\* little-endian host
PrimByte(n, w, k) ==
    IF w = 64
    THEN IF k < 4 THEN (n[1] \div Pow256(k)) % 256
                  ELSE (n[2] \div Pow256(k - 4)) % 256
    ELSE (n \div Pow256(k)) % 256

\* the copy with the octets in the opposite order
MemcpyPrim_Reversed(n, w) ==
    [k \in 1..(w \div 8) |-> PrimByte(n, w, (w \div 8) - k)]

\* uni_memcpy( ret.data, &n, sizeof n )
MemcpyPrim(n, w) == [k \in 1..(w \div 8) |-> PrimByte(n, w, k - 1)]

Zeros(n) == [k \in 1..n |-> 0]

\* ------------------------------------------------------------------ heap
NoBlock == [st |-> "unused", data |-> <<>>, past |-> 0]

NBlk == Cardinality({b \in Blocks : heap[b].st # "unused"})

\* uni_alloc / uni_alloc0: a fresh block, never NULL
Alloc(h, id, data, past) ==
    [h EXCEPT ![id] = [st |-> "live", data |-> data, past |-> past]]

\* uni_free: the block is gone; its octets stay in memory as they were or
\* as the allocator overwrote them
Free(h, id) ==
    {[h EXCEPT ![id] = [st |-> "freed", data |-> d, past |-> @.past]] :
        d \in {h[id].data, [k \in 1..Len(h[id].data) |-> 221]}}

NoVal == [data |-> NULL, sz |-> 0, st |-> "none"]

Held(s) == vals[s].st = "held"

\* the call before the current one, kept when it was a bigint_s_cmp_gt
NoPrev == <<"none", "a", "a", <<>>>>

Init ==
    /\ heap = [b \in Blocks |-> NoBlock]
    /\ vals = [s \in Slots |-> NoVal]
    /\ pc = "idle"
    /\ op = "none"
    /\ xa = "a"
    /\ xb = "a"
    /\ arg = <<>>
    /\ a_neg = 0
    /\ i = 0
    /\ new_sz = 0
    /\ res = <<>>
    /\ pre = heap
    /\ acc = {}
    /\ prev = NoPrev
    /\ nfree = [b \in Blocks |-> 0]
    /\ uaf = FALSE

\* what every call records on entry
Enter(o, x, y, g) ==
    /\ pc = "idle"
    /\ op' = o
    /\ xa' = x
    /\ xb' = y
    /\ arg' = g
    /\ pre' = heap
    /\ prev' = IF op = "gt" THEN <<op, xa, xb, res>> ELSE NoPrev

\* ------------------------------------------------------------- lifecycle
\* struct bigint_s bigint_s_init( u16 sz )
bigint_s_init(s, sz) ==
    /\ Enter("init", s, s, <<sz>>)
    /\ vals[s].st = "none"
    /\ IF sz > 0
       THEN /\ \E p \in PastOctets :
                 heap' = Alloc(heap, NBlk + 1, Zeros(sz), p)
            /\ vals' = [vals EXCEPT ![s] =
                          [data |-> NBlk + 1, sz |-> sz, st |-> "held"]]
       ELSE /\ heap' = heap
            /\ vals' = [vals EXCEPT ![s] =
                          [data |-> NULL, sz |-> 0, st |-> "held"]]
    /\ res' = <<>>
    /\ acc' = {}
    /\ UNCHANGED <<pc, a_neg, i, new_sz, nfree, uaf>>

\* struct bigint_s bigint_s_make64/32/16/8( n )
bigint_s_make(s, w, n) ==
    /\ Enter("make", s, s, <<w, n>>)
    /\ vals[s].st = "none"
    /\ \E p \in PastOctets :
         heap' = Alloc(heap, NBlk + 1, MemcpyPrim(n, w), p)
    /\ vals' = [vals EXCEPT ![s] =
                  [data |-> NBlk + 1, sz |-> w \div 8, st |-> "held"]]
    /\ res' = <<>>
    /\ acc' = {}
    /\ UNCHANGED <<pc, a_neg, i, new_sz, nfree, uaf>>

\* void bigint_s_fini( struct bigint_s in ); the caller finalises a value
\* it holds, once
bigint_s_fini(s) ==
    /\ Enter("fini", s, s, <<>>)
    /\ Held(s)
    /\ vals' = [vals EXCEPT ![s].st = "finished"]
    /\ IF vals[s].data # NULL
       THEN /\ heap' \in Free(heap, vals[s].data)
            /\ nfree' = [nfree EXCEPT ![vals[s].data] = @ + 1]
       ELSE UNCHANGED <<heap, nfree>>
    /\ res' = <<>>
    /\ acc' = {}
    /\ UNCHANGED <<pc, a_neg, i, new_sz, uaf>>

\* ------------------------------------------------------------ comparison
\* one octet of an operand as the comparison loops read it: inside the
\* buffer the stored octet, at index sz the octet behind the block
Rd(h, v, k) == IF k < v.sz THEN h[v.data].data[k + 1] ELSE h[v.data].past

\* a read or write through a pointer whose block was freed
Stale(h, v) == v.data # NULL /\ h[v.data].st = "freed"

\* static int isnegative( struct bigint_s * in )
isnegative(h, v) == h[v.data].data[v.sz] \div 128

\* in->data[in->sz - 1] & 0x7F, stored back
ClearSign(h, v) == [h EXCEPT ![v.data].data[v.sz] = @ % 128]

SmlSz(a, b) == IF a.sz < b.sz THEN a.sz ELSE b.sz

\* a return: the callee's locals are gone
Return(r) ==
    /\ res' = <<r>>
    /\ pc' = "idle"
    /\ i' = 0
    /\ a_neg' = 0

\* bigint_s_cmp_gt (orequ = 0) and bigint_s_cmp_ge (orequ = 1): the part of
\* bigint_s_cmp_impl before its loops
bigint_s_cmp_impl(o, x, y) ==
    LET a == vals[x]
        b == vals[y]
    IN  /\ Enter(o, x, y, <<>>)
        /\ Held(x) /\ Held(y)
        /\ IF a.sz = 0 \/ b.sz = 0
           THEN /\ Return(BIGINT_UNDEFINED)
                /\ acc' = {}
                /\ UNCHANGED <<heap, uaf>>
           ELSE LET an == isnegative(heap, a)
                    bn == isnegative(heap, b)
                    masked == ClearSign(ClearSign(heap, a), b)
                IN  /\ acc' = {<<x, a.sz - 1>>, <<y, b.sz - 1>>}
                    /\ uaf' = (uaf \/ Stale(heap, a) \/ Stale(heap, b))
                    /\ IF an # bn
                       THEN /\ Return(IF bn = 1 THEN BIGINT_TRUE
                                                ELSE BIGINT_FALSE)
                            /\ heap' = heap
                       ELSE /\ heap' = masked
                            /\ a_neg' = an
                            /\ res' = <<>>
                            /\ IF a.sz # b.sz
                               THEN /\ pc' = "cmp_big"
                                    /\ i' = ((IF a.sz > b.sz THEN a.sz
                                              ELSE b.sz) - 1) % U16Mod
                               ELSE /\ pc' = "cmp_scan"
                                    /\ i' = SmlSz(a, b)
        /\ UNCHANGED <<vals, new_sz, nfree>>

\* one iteration of for(i = big->sz - 1; i >= sml_sz; --i)
CmpBigStep ==
    LET a == vals[xa]
        b == vals[xb]
        a_big == a.sz > b.sz
        big == IF a_big THEN a ELSE b
    IN  /\ pc = "cmp_big"
        /\ IF i >= SmlSz(a, b)
           THEN /\ acc' = acc \cup {<<IF a_big THEN xa ELSE xb, i>>}
                /\ IF Rd(heap, big, i) # 0
                   THEN /\ Return(IF a_big
                                  THEN (IF a_neg = 1 THEN BIGINT_FALSE
                                                     ELSE BIGINT_TRUE)
                                  ELSE (IF a_neg = 1 THEN BIGINT_TRUE
                                                     ELSE BIGINT_FALSE))
                   ELSE /\ i' = (i - 1) % U16Mod
                        /\ UNCHANGED <<pc, res, a_neg>>
           ELSE /\ pc' = "cmp_scan"
                /\ i' = SmlSz(a, b)
                /\ UNCHANGED <<acc, res, a_neg>>
        /\ UNCHANGED <<heap, vals, op, xa, xb, arg, new_sz, pre, prev,
                       nfree, uaf>>

\* one iteration of for(i = sml_sz; i >= 0; --i) at an index up to sml_sz;
\* i >= 0 holds of every u16, so the loop is left only by its returns
CmpScanStep ==
    LET a == vals[xa]
        b == vals[xb]
    IN  /\ pc = "cmp_scan"
        /\ i <= SmlSz(a, b)
        /\ acc' = acc \cup {<<xa, i>>, <<xb, i>>}
        /\ IF Rd(heap, a, i) > Rd(heap, b, i)
           THEN Return(IF a_neg = 1 THEN BIGINT_FALSE ELSE BIGINT_TRUE)
           ELSE IF Rd(heap, a, i) < Rd(heap, b, i)
           THEN Return(IF a_neg = 1 THEN BIGINT_TRUE ELSE BIGINT_FALSE)
           ELSE /\ i' = (i - 1) % U16Mod
                /\ UNCHANGED <<pc, res, a_neg>>
        /\ UNCHANGED <<heap, vals, op, xa, xb, arg, new_sz, pre, prev,
                       nfree, uaf>>

\* the same loop after --i wrapped from 0 to 65535: the iterations at the
\* indices 65535 down to sml_sz + 1 read memory far behind both blocks.
\* A read faults, or two octets of different buffers differ and the loop
\* returns, or the octets read are pairwise equal (as they are when both
\* operands are one buffer) and the loop arrives at index sml_sz again.
CmpScanWrapped ==
    LET a == vals[xa]
        b == vals[xb]
    IN  /\ pc = "cmp_scan"
        /\ i > SmlSz(a, b)
        /\ acc' = acc \cup {<<xa, i>>, <<xb, i>>}
        /\ \/ /\ pc' = "crashed"
              /\ UNCHANGED <<i, a_neg, res>>
           \/ /\ a.data # b.data
              /\ \E r \in {BIGINT_FALSE, BIGINT_TRUE} : Return(r)
           \/ /\ pc' = pc
              /\ i' = SmlSz(a, b)
              /\ UNCHANGED <<a_neg, res>>
        /\ UNCHANGED <<heap, vals, op, xa, xb, arg, new_sz, pre, prev,
                       nfree, uaf>>

\* the scan that stops one octet short of the top
RECURSIVE EqPrefix_Short(_, _, _, _)
EqPrefix_Short(h, a, b, k) ==
    IF k < a.sz /\ (k = a.sz - 1 \/ Rd(h, a, k) = Rd(h, b, k))
    THEN EqPrefix_Short(h, a, b, k + 1) ELSE k

\* the number of leading positions (from octet 0) at which a and b agree
RECURSIVE EqPrefix(_, _, _, _)
EqPrefix(h, a, b, k) ==
    IF k < a.sz /\ Rd(h, a, k) = Rd(h, b, k)
    THEN EqPrefix(h, a, b, k + 1) ELSE k

\* the comparison that tests only its first operand for emptiness
bigint_s_cmp_eq_FirstOnly(x, y) ==
    LET a == vals[x]
        b == vals[y]
        n == EqPrefix(heap, a, b, 0)
    IN  /\ Enter("eq", x, y, <<>>)
        /\ Held(x) /\ Held(y)
        /\ IF a.sz = 0
           THEN /\ Return(BIGINT_UNDEFINED)
                /\ acc' = {}
                /\ uaf' = uaf
           ELSE IF a.sz # b.sz
           THEN /\ Return(BIGINT_FALSE)
                /\ acc' = {}
                /\ uaf' = uaf
           ELSE /\ Return(IF n < a.sz THEN BIGINT_FALSE ELSE BIGINT_TRUE)
                /\ acc' = {<<s, k>> : s \in {x, y},
                                      k \in 0..(IF n < a.sz THEN n
                                                ELSE a.sz - 1)}
                /\ uaf' = (uaf \/ Stale(heap, a) \/ Stale(heap, b))
        /\ UNCHANGED <<heap, vals, new_sz, nfree>>

\* enum bigint_cmp_retval bigint_s_cmp_eq( a, b )
bigint_s_cmp_eq(x, y) ==
    LET a == vals[x]
        b == vals[y]
        n == EqPrefix(heap, a, b, 0)
    IN  /\ Enter("eq", x, y, <<>>)
        /\ Held(x) /\ Held(y)
        /\ IF a.sz = 0 \/ b.sz = 0
           THEN /\ Return(BIGINT_UNDEFINED)
                /\ acc' = {}
                /\ uaf' = uaf
           ELSE IF a.sz # b.sz
           THEN /\ Return(BIGINT_FALSE)
                /\ acc' = {}
                /\ uaf' = uaf
           ELSE /\ Return(IF n < a.sz THEN BIGINT_FALSE ELSE BIGINT_TRUE)
                /\ acc' = {<<s, k>> : s \in {x, y},
                                      k \in 0..(IF n < a.sz THEN n
                                                ELSE a.sz - 1)}
                /\ uaf' = (uaf \/ Stale(heap, a) \/ Stale(heap, b))
        /\ UNCHANGED <<heap, vals, new_sz, nfree>>

\* ------------------------------------------------------------- deep copy
\* struct bigint_s bigint_s_dup( struct bigint_s in ), up to the first test
\* of its loop; the caller stores the result in the variable d
bigint_s_dup(x, d) ==
    /\ Enter("dup", x, d, <<>>)
    /\ Held(x)
    /\ vals[d].st = "none"
    /\ pc' = "dup_loop"
    /\ i' = (vals[x].sz - 1) % U16Mod
    /\ new_sz' = vals[x].sz
    /\ res' = <<>>
    /\ acc' = {}
    /\ UNCHANGED <<heap, vals, a_neg, nfree, uaf>>

\* one iteration of for(i = ret.sz - 1, new_sz = ret.sz; i >= 0; --i) at an
\* index inside the buffer
DupLoopStep ==
    LET in == vals[xa]
    IN  /\ pc = "dup_loop"
        /\ i < in.sz
        /\ new_sz' = (new_sz - (IF Rd(heap, in, i) = 0 THEN 1 ELSE 0))
                        % U16Mod
        /\ i' = (i - 1) % U16Mod
        /\ acc' = acc \cup {<<xa, i>>}
        /\ uaf' = (uaf \/ Stale(heap, in))
        /\ UNCHANGED <<heap, vals, pc, op, xa, xb, arg, a_neg, res, pre, prev,
                       nfree>>

\* the same loop once i is 65535 (ret.sz = 0, or --i wrapped from 0): the
\* test i >= 0 holds of every u16 and the body has no exit, so the loop
\* runs on over the memory behind the block, from index 65535 down to
\* ret.sz, and then over the buffer again.  A read there faults, or the
\* loop arrives at index ret.sz - 1 with a count that depends on the zero
\* octets it met (followed here: the run in which the count is ret.sz
\* again); a build that takes the loop, which has no side effect, to
\* terminate (C11 6.8.5p6) goes on after it with the count made inside the
\* buffer.
DupLoopWrapped ==
    /\ pc = "dup_loop"
    /\ i >= vals[xa].sz
    /\ acc' = acc \cup {<<xa, i>>}
    /\ \/ /\ pc' = "crashed"
          /\ UNCHANGED <<i, new_sz>>
       \/ /\ pc' = "dup_tail"
          /\ UNCHANGED <<i, new_sz>>
       \/ /\ pc' = pc
          /\ i' = (vals[xa].sz - 1) % U16Mod
          /\ new_sz' = vals[xa].sz
    /\ UNCHANGED <<heap, vals, op, xa, xb, arg, a_neg, res, pre, prev,
                   nfree, uaf>>

\* bigint_s_dup after its loop: if(new_sz != ret.sz) { ... } return ret
DupTail ==
    LET in == vals[xa]
        id == NBlk + 1
    IN  /\ pc = "dup_tail"
        /\ IF new_sz # in.sz
           THEN /\ \E d \in [1..new_sz -> UninitOctets], p \in PastOctets :
                     heap' \in Free(Alloc(heap, id, d, p), in.data)
                /\ nfree' = [nfree EXCEPT ![in.data] = @ + 1]
                /\ vals' = [vals EXCEPT ![xb] =
                              [data |-> id, sz |-> new_sz, st |-> "held"]]
           ELSE /\ vals' = [vals EXCEPT ![xb] =
                              [data |-> in.data, sz |-> in.sz,
                               st |-> "held"]]
                /\ UNCHANGED <<heap, nfree>>
        /\ pc' = "idle"
        /\ i' = 0
        /\ new_sz' = 0
        /\ UNCHANGED <<op, xa, xb, arg, a_neg, res, pre, acc, prev, uaf>>

Next ==
    \/ \E s \in Slots, sz \in 0..MaxInitSz : bigint_s_init(s, sz)
    \/ \E s \in Slots, w \in Widths : \E n \in Prims(w) : bigint_s_make(s, w, n)
    \/ \E s \in Slots : bigint_s_fini(s)
    \/ \E o \in {"gt", "ge"}, x \in Slots, y \in Slots :
         bigint_s_cmp_impl(o, x, y)
    \/ CmpBigStep
    \/ CmpScanStep
    \/ CmpScanWrapped
    \/ \E x \in Slots, y \in Slots : bigint_s_cmp_eq(x, y)
    \/ \E x \in Slots, d \in Slots : bigint_s_dup(x, d)
    \/ DupLoopStep
    \/ DupLoopWrapped
    \/ DupTail

Spec == Init /\ [][Next]_vars
\* the caller runs without pause: a call that was entered takes its steps
FairSpec ==
    /\ Spec
    /\ WF_vars(CmpBigStep)
    /\ WF_vars(CmpScanStep)
    /\ WF_vars(CmpScanWrapped)
    /\ WF_vars(DupLoopStep)
    /\ WF_vars(DupLoopWrapped)
    /\ WF_vars(DupTail)

\* ================================================================ claims
\* the octets of the buffer of v in the heap h
Dat(h, v) == IF v.data = NULL THEN <<>> ELSE h[v.data].data

\* the operands of the current call, as they were when it was entered
PreA == Dat(pre, vals[xa])
PreB == Dat(pre, vals[xb])

NonEmpty == vals[xa].sz > 0 /\ vals[xb].sz > 0

Returned(ops) == pc = "idle" /\ op \in ops /\ res # <<>>

\* two's-complement order on little-endian octet strings of any lengths:
\* extend the sign to a common length, then compare from the top octet
SignExt(d, n) ==
    [k \in 1..n |-> IF k <= Len(d) THEN d[k]
                    ELSE IF d[Len(d)] >= 128 THEN 255 ELSE 0]

Rank(d, k) == IF k = Len(d) THEN (d[k] + 128) % 256 ELSE d[k]

RECURSIVE LexGt(_, _, _)
LexGt(x, y, k) ==
    IF k = 0 THEN FALSE
    ELSE IF Rank(x, k) # Rank(y, k) THEN Rank(x, k) > Rank(y, k)
    ELSE LexGt(x, y, k - 1)

TcGreater(x, y) ==
    LET n == IF Len(x) > Len(y) THEN Len(x) ELSE Len(y)
    IN  LexGt(SignExt(x, n), SignExt(y, n), n)

\* the integer a little-endian two's-complement string of up to 4 octets
\* denotes
RECURSIVE ULe(_, _)
ULe(d, k) == IF k = 0 THEN 0 ELSE d[k] * Pow256(k - 1) + ULe(d, k - 1)

TcValue(d) ==
    LET n == Len(d)
        top == IF d[n] >= 128 THEN d[n] - 256 ELSE d[n]
    IN  top * Pow256(n - 1) + ULe(d, n - 1)

\* the number of consecutive zero octets at the high-order end of d
RECURSIVE HighZeros(_, _)
HighZeros(d, k) ==
    IF k = 0 THEN 0
    ELSE IF d[k] = 0 THEN 1 + HighZeros(d, k - 1) ELSE 0

\* C1: a bigint_s_cmp_gt or bigint_s_cmp_ge of two non-empty values that
\* has returned left every octet of both buffers as it was before the call.
C1_CmpLeavesOperands ==
    (Returned({"gt", "ge"}) /\ NonEmpty)
        => /\ Dat(heap, vals[xa]) = PreA
           /\ Dat(heap, vals[xb]) = PreB

\* C2: bigint_s_cmp_gt of two non-empty values returns BIGINT_TRUE if the
\* two's-complement integer of a is greater than that of b, and
\* BIGINT_FALSE otherwise.
C2_GtIsIntegerOrder ==
    (Returned({"gt"}) /\ NonEmpty)
        => res[1] = (IF TcGreater(PreA, PreB) THEN BIGINT_TRUE
                                               ELSE BIGINT_FALSE)

\* C3: for non-empty values of the same size and with the same octets,
\* bigint_s_cmp_ge returns BIGINT_TRUE and bigint_s_cmp_gt BIGINT_FALSE.
C3_EqualOperands ==
    (Returned({"gt", "ge"}) /\ NonEmpty /\ vals[xa].sz = vals[xb].sz
                            /\ PreA = PreB)
        => res[1] = (IF op = "ge" THEN BIGINT_TRUE ELSE BIGINT_FALSE)

\* C4: a comparison returns BIGINT_UNDEFINED when an operand is empty,
\* having read no octet, and never when both operands are non-empty.
C4_UndefinedIffEmpty ==
    Returned({"eq", "gt", "ge"})
        => /\ (res[1] = BIGINT_UNDEFINED) <=> ~NonEmpty
           /\ ~NonEmpty => acc = {}

C4_Witness ==
    /\ Returned({"gt"})
    /\ vals[xa].sz > 0
    /\ vals[xb].sz = 0
    /\ res[1] = BIGINT_UNDEFINED

\* C5: bigint_s_cmp_eq of two non-empty values returns BIGINT_TRUE if the
\* sizes are equal and every octet is equal, and BIGINT_FALSE otherwise.
C5_EqIsOctetEquality ==
    (Returned({"eq"}) /\ NonEmpty /\ heap[vals[xa].data].st = "live"
                      /\ heap[vals[xb].data].st = "live")
        => res[1] = (IF /\ vals[xa].sz = vals[xb].sz
                        /\ \A k \in 1..vals[xa].sz :
                             Dat(heap, vals[xa])[k] = Dat(heap, vals[xb])[k]
                     THEN BIGINT_TRUE ELSE BIGINT_FALSE)

C5_Witness ==
    /\ Returned({"eq"})
    /\ xa # xb
    /\ vals[xa].data # vals[xb].data
    /\ vals[xa].sz = 2
    /\ res[1] = BIGINT_TRUE

\* C6: bigint_s_dup(v) returns a value whose sz is v.sz less the number of
\* consecutive zero octets at the high-order end of v, and whose octets
\* are those of v.
C6_DupTrimsHighZeros ==
    (pc = "idle" /\ op = "dup")
        => /\ vals[xb].sz = vals[xa].sz - HighZeros(PreA, vals[xa].sz)
           /\ \A k \in 1..vals[xb].sz :
                Dat(heap, vals[xb])[k] = PreA[k]

\* C7: bigint_s_dup neither frees nor modifies the buffer of v and its
\* copy has an allocation of its own, so with one bigint_s_fini for each
\* value no block is freed twice and no freed block is read.
C7_DupIsDeepCopy ==
    /\ \A b \in Blocks : nfree[b] <= 1
    /\ ~uaf
    /\ (pc = "idle" /\ op = "dup" /\ vals[xa].data # NULL)
          => /\ vals[xb].data # vals[xa].data
             /\ heap[vals[xa].data] = pre[vals[xa].data]

\* C8: every call returns after finitely many loop iterations (a call that
\* ends in a fault is not held against the claim).
C8_EveryCallReturns ==
    [](pc # "idle" => <>(pc \in {"idle", "crashed"}))

\* C9: bigint_s_make<w>(n) returns a value of w/8 octets that hold the
\* two's-complement representation of n, least-significant octet first.
C9_MakeIsLittleEndian ==
    (pc = "idle" /\ op = "make")
        => LET w == arg[1]
               n == arg[2]
               d == Dat(heap, vals[xa])
           IN  /\ vals[xa].sz = w \div 8
               /\ Len(d) = w \div 8
               /\ IF w = 64
                  THEN /\ TcValue(SubSeq(d, 1, 4)) = n[1]
                       /\ TcValue(SubSeq(d, 5, 8)) = n[2]
                  ELSE TcValue(d) = n

C9_Witness ==
    /\ pc = "idle"
    /\ op = "make"
    /\ arg = <<32, 16909060>>
    /\ Dat(heap, vals[xa]) = <<4, 3, 2, 1>>

\* C10: bigint_s_cmp_gt(a,b) and then bigint_s_cmp_gt(b,a), on non-empty
\* values in the same buffers, do not both return BIGINT_TRUE.
C10_GtNotBothWays ==
    (Returned({"gt"}) /\ NonEmpty /\ prev[1] = "gt" /\ prev[2] = xb
                      /\ prev[3] = xa)
        => ~(res[1] = BIGINT_TRUE /\ prev[4] = <<BIGINT_TRUE>>)

\* C11: every octet index that bigint_s_cmp_gt, bigint_s_cmp_ge or
\* bigint_s_dup reads or writes in an operand's buffer lies in 0..sz-1 of
\* that operand: the scan does not touch index min(a.sz, b.sz) of the
\* shorter operand and the u16 counter does not wrap below 0.
C11_AccessesInBounds ==
    (op \in {"gt", "ge", "dup"})
        => \A e \in acc : e[2] < vals[e[1]].sz
====
